---- MODULE Spec2Model ----
(***************************************************************************)
(* Well-Bot chat-turn pipeline: safety gate, hybrid regex/LLM intent       *)
(* detector, response routing and the Card envelope helpers.               *)
(*                                                                         *)
(* A user text is a sequence of fragments.  A fragment is a piece of text  *)
(* that begins and ends with a word character (a keyword phrase or some    *)
(* other word) or a single whitespace character; the text is the           *)
(* concatenation of its fragments.  Regular expressions and substring      *)
(* tests are evaluated on that concatenation.                              *)
(* Confidences are in hundredths (0.95 is 95).                             *)
(***************************************************************************)
EXTENDS Integers, Sequences, FiniteSets, TLC

\* One chat turn
VARIABLES pc, text, api_key, now, start_time, safety_card, intent_result,
          card, escaped, calls, log, request, http_status

\* One speech-to-text relay session (test_stt)
VARIABLES h_pc, c2d_pc, d2c_pc, c2d_exit, d2c_exit, client_open, dg_ws,
          dg_queue, received, to_dg, to_client

chat_vars == <<pc, text, api_key, now, start_time, safety_card, intent_result,
               card, escaped, calls, log, request, http_status>>

relay_vars == <<h_pc, c2d_pc, d2c_pc, c2d_exit, d2c_exit, client_open, dg_ws,
                dg_queue, received, to_dg, to_client>>

\* One call of the completion capability (DeepSeekClient.chat_completion)
VARIABLES s_pc, use_streaming, s_resp, s_idx, buffer, yielded, s_result

llm_vars == <<s_pc, use_streaming, s_resp, s_idx, buffer, yielded, s_result>>

vars == <<chat_vars, relay_vars, llm_vars>>

\* ---------------------------------------------------------------- bounds
MaxLen == 3

\* ------------------------------------------------------------- text model
Whitespace == {" ", "\n"}

Fragments ==
  {" ", "\n", "x", "Add to-do", "start journal", "bye", "suicide",
   "Hurt Myself"}

Texts == UNION {[1..n -> Fragments] : n \in 0..MaxLen}

\* str.lower() / re.IGNORECASE on one fragment
Lower(f) ==
  CASE f = "Add to-do" -> "add to-do"
    [] f = "Hurt Myself" -> "hurt myself"
    [] OTHER -> f

TextLower(txt) == [i \in 1..Len(txt) |-> Lower(txt[i])]

\* phrase in text_lower
Contains(txt, phrase) == \E i \in 1..Len(txt) : txt[i] = phrase

\* \b before / after fragment i
WordBoundaryBefore(txt, i) == i = 1 \/ txt[i-1] \in Whitespace

WordBoundaryAfter(txt, i) == i = Len(txt) \/ txt[i+1] \in Whitespace

MaxOf(S) == CHOOSE m \in S : \A k \in S : k <= m

MinOf(S) == CHOOSE m \in S : \A k \in S : m <= k

\* str.strip()
Strip(s) ==
  LET nonws == {i \in 1..Len(s) : s[i] \notin Whitespace}
  IN  IF nonws = {} THEN <<>> ELSE SubSeq(s, MinOf(nonws), MaxOf(nonws))

\* len() of one fragment, in characters
CharLen(f) ==
  CASE f = "Add to-do" -> 9
    [] f = "start journal" -> 13
    [] f = "bye" -> 3
    [] f = "suicide" -> 7
    [] f = "Hurt Myself" -> 11
    [] OTHER -> 1

RECURSIVE len(_)
len(txt) == IF txt = <<>> THEN 0 ELSE CharLen(Head(txt)) + len(Tail(txt))

\* What a logged value shows of the text: its first prefix characters and
\* its last suffix characters (a length or a hash shows none)
Shown(prefix, suffix) == [prefix |-> prefix, suffix |-> suffix]

\* llm.py: text[:20] + "..." if len(text) > 20 else text
masked_text(txt) == IF len(txt) > 20 THEN Shown(20, 0) ELSE Shown(len(txt), 0)

\* IntentDetector._mask_text: "[N chars]" up to max_chars characters, else
\* the first and last max_chars // 2 characters around "..." and a hash
_mask_text(txt, max_chars) ==
  IF len(txt) <= max_chars
    THEN Shown(0, 0)
    ELSE Shown(max_chars \div 2, max_chars \div 2)

\* A log record: the event and its masked_text field
LogRecord(event, masked) == [event |-> event, masked_text |-> masked]

\* Result of a call: a returned value or a raised exception
Return(v) == [raised |-> FALSE, exc |-> "", value |-> v]

Raise(e) == [raised |-> TRUE, exc |-> e, value |-> <<>>]

None == "None"

Absent == "<absent>"

\* ------------------------------------------------------------- envelopes
Diagnostics(tool, duration_ms) == [tool |-> tool, duration_ms |-> duration_ms]

PersistedIds == [primary_id |-> None, extra |-> <<>>]

\* A meta mapping over the keys the pipeline uses; Absent marks a missing
\* key (concerns_found is only ever set to a non-empty list).
EmptyMeta ==
  [kind |-> Absent, action |-> Absent, concerns_found |-> <<>>,
   tool |-> Absent, error_code |-> Absent]

Meta(kind) == [EmptyMeta EXCEPT !.kind = kind]

Card(status, type, title, body, meta, persisted_ids, diagnostics, error_code) ==
  [status |-> status, type |-> type, title |-> title, body |-> body,
   meta |-> meta, persisted_ids |-> persisted_ids,
   diagnostics |-> diagnostics, error_code |-> error_code]

\* Optional arguments are sequences of length at most one.
ok_card(title, body, meta, persisted_ids, diagnostics) ==
  Card("ok", "card", title, body,
       IF meta = <<>> THEN EmptyMeta ELSE meta[1],
       IF persisted_ids = <<>> THEN PersistedIds ELSE persisted_ids[1],
       IF diagnostics = <<>> THEN Diagnostics("unknown", 0) ELSE diagnostics[1],
       None)

\* error_card that forgets to set the error_code field
error_card_no_code(title, body, error_code, tool, diagnostics) ==
  Card("error", "error_card", title, body,
       [EmptyMeta EXCEPT !.tool = tool, !.error_code = error_code],
       PersistedIds,
       IF diagnostics = <<>> THEN Diagnostics(tool, 0) ELSE diagnostics[1],
       None)

error_card(title, body, error_code, tool, diagnostics) ==
  Card("error", "error_card", title, body,
       [EmptyMeta EXCEPT !.tool = tool, !.error_code = error_code],
       PersistedIds,
       IF diagnostics = <<>> THEN Diagnostics(tool, 0) ELSE diagnostics[1],
       error_code)

overlay_control(title, body, meta, diagnostics) ==
  Card("ok", "overlay_control", title, body,
       IF meta = <<>> THEN EmptyMeta ELSE meta[1],
       PersistedIds,
       IF diagnostics = <<>> THEN Diagnostics("unknown", 0) ELSE diagnostics[1],
       None)

\* An exception with its type and message (str(e) is the message)
Exception(type, msg) == [type |-> type, msg |-> msg]

str(e) == e.msg

\* What a tool handler called through the middleware chain can do: return
\* a card, fail a validation (ValueError), or fail otherwise
HandlerOutcomes ==
  {Return(ok_card("Your To-Dos", <<"Here are your open tasks...">>, <<Meta("todo")>>,
                  <<>>, <<>>)),
   Raise(Exception("ValueError", "Missing required Supabase environment variables")),
   Raise(Exception("ConnectionError", "connection to db.internal:5432 refused"))}

\* middleware.error_mw: maps the handler's exceptions to error cards
error_mw(tool, outcome) ==
  IF ~outcome.raised
    THEN outcome.value
    ELSE IF outcome.exc.type = "ValueError"
           THEN error_card("Validation Error", <<str(outcome.exc)>>,
                           "VALIDATION_ERROR", tool, <<>>)
           ELSE error_card("Action Failed",
                           <<"An unexpected error occurred. Please try again.">>,
                           "UNEXPECTED", tool, <<>>)

\* ----------------------------------------------------------- safety tool
\* The request context: the MCP timing middleware attaches ctx.timing;
\* the chat-turn route passes None.
NoCtx == [has_timing |-> FALSE, elapsed |-> 0]

TimingCtx(ms) == [has_timing |-> TRUE, elapsed |-> ms]

concerning_phrases ==
  <<"hurt myself", "kill myself", "end it all", "not worth living",
    "suicide", "self harm", "cut myself", "overdose">>

SupportBody == <<"If you're having thoughts of self-harm, please reach out for help.",
                 "You're not alone, and there are people who care about you.">>

\* A phrase test on the text as typed
IsConcern_cased(txt, phrase) == Contains(txt, phrase)

\* phrase in text_lower
IsConcern(txt, phrase) == Contains(TextLower(txt), phrase)

found_concerns(txt) ==
  SelectSeq(concerning_phrases, LAMBDA phrase : IsConcern(txt, phrase))

\* safety_tool.check: both branches read ctx.timing.timing() while building
\* Diagnostics, which raises AttributeError when ctx is None.
check(ctx, txt) ==
  IF ~ctx.has_timing
    THEN Raise("AttributeError")
    ELSE IF found_concerns(txt) # <<>>
      THEN Return(<<ok_card("Support Resources", SupportBody,
                     <<[EmptyMeta EXCEPT !.kind = "info",
                                         !.action = "show_support_card",
                                         !.concerns_found = found_concerns(txt)]>>,
                     <<>>,
                     <<Diagnostics("safety.check", ctx.elapsed)>>)>>)
      ELSE Return(<<ok_card("Safety Check Complete",
                     <<"No safety concerns detected.">>,
                     <<[EmptyMeta EXCEPT !.kind = "info", !.action = "none"]>>,
                     <<>>,
                     <<Diagnostics("safety.check", ctx.elapsed)>>)>>)

SafetyTimeoutMs == 50

\* asyncio.wait_for(coro, timeout): TimeoutError when the awaited call is
\* still pending at the deadline, else its outcome.
wait_for(result, slow) == IF slow THEN Raise("TimeoutError") ELSE result

\* run_safety_check without its exception handlers
run_safety_check_propagates(txt, slow) ==
  LET safety_result == wait_for(check(NoCtx, txt), slow)
  IN  IF safety_result.raised
        THEN safety_result
        ELSE IF safety_result.value[1].meta.action = "show_support_card"
          THEN Return(safety_result.value)
          ELSE Return(<<>>)

\* llm.run_safety_check: Optional[Card]; every exception is swallowed.
run_safety_check(txt, slow) ==
  LET safety_result == wait_for(check(NoCtx, txt), slow)
  IN  IF safety_result.raised
        THEN Return(<<>>)
        ELSE IF safety_result.value[1].meta.action = "show_support_card"
          THEN Return(safety_result.value)
          ELSE Return(<<>>)

\* -------------------------------------------------------- intent detector
\* self.patterns with todo.add ahead of todo.list
patterns_swapped ==
  <<"journal.start", "todo.add", "todo.list", "quote.get",
    "meditation.play", "session.end">>
\* self.patterns, in dict insertion order
patterns ==
  <<"journal.start", "todo.list", "todo.add", "quote.get",
    "meditation.play", "session.end">>

\* Lower-cased fragments on which the literal part of each pattern matches:
\*   \bstart\s+journal\b, \bshow\s+(my\s+)?to-?do\b, \badd\s+to-?do\b,
\*   \b(give\s+me\s+a\s+)?quote\b, \b(start\s+)?meditation\b,
\*   \b(bye|talk\s+later|goodbye)\b
\* (an optional prefix does not change whether search() succeeds).
PatternLiterals(intent_name) ==
  CASE intent_name = "journal.start" -> {"start journal"}
    [] intent_name = "todo.list" -> {"show todo", "show to-do", "show my todo", "show my to-do"}
    [] intent_name = "todo.add" -> {"add todo", "add to-do"}
    [] intent_name = "quote.get" -> {"quote"}
    [] intent_name = "meditation.play" -> {"meditation"}
    [] intent_name = "session.end" -> {"bye", "goodbye", "talk later"}
    [] OTHER -> {}

\* pattern.search(text) for the compiled, word-boundary anchored patterns
PatternSearch(intent_name, txt) ==
  \E i \in 1..Len(txt) :
     /\ Lower(txt[i]) \in PatternLiterals(intent_name)
     /\ WordBoundaryBefore(txt, i)
     /\ WordBoundaryAfter(txt, i)

\* Where group (.+) starts when \b<verb>\s+(.+) matches with the verb at
\* fragment i, else 0.  \s+ is greedy and backtracks; "." does not match
\* a newline.
GroupStartAt(verbs, txt, i) ==
  IF ~(/\ Lower(txt[i]) \in verbs
       /\ WordBoundaryBefore(txt, i)
       /\ i < Len(txt)
       /\ txt[i+1] \in Whitespace)
    THEN 0
    ELSE LET r == MaxOf({e \in i+1..Len(txt) : \A k \in i+1..e : txt[k] \in Whitespace})
         IN  IF r < Len(txt)
               THEN r + 1
               ELSE LET blanks == {b \in i+2..Len(txt) : txt[b] = " "}
                    IN  IF blanks = {} THEN 0 ELSE MaxOf(blanks)

\* re.search(r"\b<verb>\s+(.+)", text, re.IGNORECASE): <<>> when there is
\* no match, else <<group>> for the leftmost match.
VerbContentSearch(verbs, txt) ==
  LET hits == {i \in 1..Len(txt) : GroupStartAt(verbs, txt, i) # 0}
  IN  IF hits = {}
        THEN <<>>
        ELSE LET b == GroupStartAt(verbs, txt, MinOf(hits))
                 e == MaxOf({j \in b..Len(txt) : \A k \in b..j : txt[k] # "\n"})
             IN  <<SubSeq(txt, b, e)>>

AddVerbs == {"add todo", "add to-do"}

\* An args mapping is a set of <<key, text>> pairs.
_extract_args_from_text(txt, intent) ==
  LET grab(key, verbs) ==
        LET m == VerbContentSearch(verbs, txt)
        IN  IF m # <<>> THEN {<<key, Strip(m[1])>>} ELSE {}
  IN  CASE intent = "todo.add" -> grab("content", AddVerbs)
        [] intent = "gratitude.add" -> grab("content", {"gratitude", "grateful", "thankful"})
        [] intent = "journal.start" -> grab("topic", {"about"})
        [] intent = "todo.complete" -> grab("item", {"complete", "finish", "done"})
        [] intent = "todo.delete" -> grab("item", {"delete", "remove"})
        [] OTHER -> {}

IntentResult(intent, confidence, args) ==
  [intent |-> intent, confidence |-> confidence, args |-> args]

\* _try_regex_patterns without the todo.add content check
TodoAddGuard_off(txt) == TRUE

\* The todo.add guard: content must follow the verb
TodoAddGuard(txt) ==
  LET add_match == VerbContentSearch(AddVerbs, txt)
  IN  add_match # <<>> /\ Strip(add_match[1]) # <<>>

\* Does pattern k produce a result (match, and guard passed)?
PatternYields(k, txt) ==
  /\ PatternSearch(patterns[k], txt)
  /\ (patterns[k] = "todo.add" => TodoAddGuard(txt))

\* _try_regex_patterns reporting a lower confidence
_try_regex_patterns_conf(txt) ==
  LET yielding == {k \in 1..Len(patterns) : PatternYields(k, txt)}
  IN  IF yielding = {}
        THEN <<>>
        ELSE LET intent_name == patterns[MinOf(yielding)]
             IN  <<IntentResult(intent_name, 50,
                                _extract_args_from_text(txt, intent_name))>>

\* IntentDetector._try_regex_patterns: <<>> for None
_try_regex_patterns(txt) ==
  LET yielding == {k \in 1..Len(patterns) : PatternYields(k, txt)}
  IN  IF yielding = {}
        THEN <<>>
        ELSE LET intent_name == patterns[MinOf(yielding)]
             IN  <<IntentResult(intent_name, 95,
                                _extract_args_from_text(txt, intent_name))>>

\* ------------------------------------------------- classification capability
IntentSet ==
  {"small_talk", "journal.start", "gratitude.add", "todo.add", "todo.list",
   "todo.complete", "todo.delete", "quote.get", "meditation.play",
   "session.end"}

\* A JSON "intent" value that is a list (unhashable in Python), by its text
UnhashableIntent == "['todo.add']"

Hashable(v) == v # UnhashableIntent

RequiredKeys == {"intent", "confidence", "args"}

\* Raw JSON confidence values: a number, a numeric string, another string
NumConf(v) == [t |-> "num", v |-> v]

NumStrConf(v) == [t |-> "numstr", v |-> v]

BadConf == [t |-> "badstr", v |-> 0]

\* float(x)
Float(c) == IF c.t = "badstr" THEN Raise("ValueError") ELSE Return(c.v)

ProviderReply(kind, json, keys, intent, confidence, args) ==
  [kind |-> kind, json |-> json, keys |-> keys, intent |-> intent,
   confidence |-> confidence, args |-> args]

\* Intent values the provider answers with: small_talk, the tool intents
\* the regex path does not produce for these texts, and values outside the
\* documented list
ClassifiedIntents ==
  {"small_talk", "gratitude.add", "todo.list", "todo.complete", "todo.delete",
   "quote.get", "meditation.play", "weather.get", UnhashableIntent}

\* What the provider may answer to the classification request
ClassifierReplies ==
       {ProviderReply("raise", "", {}, "", BadConf, {}),
        ProviderReply("text", "invalid", {}, "", BadConf, {}),
        ProviderReply("text", "nonobject", {}, "", BadConf, {}),
        ProviderReply("text", "object", RequiredKeys, "todo.add", NumStrConf(40),
                      {<<"content", <<"x">>>>}),
        ProviderReply("text", "object", RequiredKeys, "quote.get", BadConf, {})}
  \cup {ProviderReply("text", "object", RequiredKeys \ {k}, "todo.list", NumConf(80), {})
          : k \in RequiredKeys}
  \cup {ProviderReply("text", "object", RequiredKeys, i, NumConf(80), {})
          : i \in ClassifiedIntents}

SmallTalkDefault(confidence) == IntentResult("small_talk", confidence, {})

\* classify_intent whose general handler answers like the JSON handler
DeepSeekClient_classify_intent_same(reply) ==
  IF reply.kind = "raise"
    THEN SmallTalkDefault(50)
    ELSE IF reply.json = "invalid"
      THEN SmallTalkDefault(50)
      ELSE IF reply.json # "object" \/ ~(RequiredKeys \subseteq reply.keys)
        THEN SmallTalkDefault(50)
        ELSE IF Float(reply.confidence).raised
          THEN SmallTalkDefault(50)
          ELSE IntentResult(reply.intent, Float(reply.confidence).value, reply.args)

\* DeepSeekClient.classify_intent: never raises
DeepSeekClient_classify_intent(reply) ==
  IF reply.kind = "raise"
    THEN SmallTalkDefault(30)
    ELSE IF reply.json = "invalid"
      THEN SmallTalkDefault(50)
      ELSE IF reply.json # "object" \/ ~(RequiredKeys \subseteq reply.keys)
        THEN SmallTalkDefault(30)
        ELSE IF Float(reply.confidence).raised
          THEN SmallTalkDefault(30)
          ELSE IntentResult(reply.intent, Float(reply.confidence).value, reply.args)

\* get_deepseek_client(): the constructor requires DEEPSEEK_API_KEY
get_deepseek_client(key_set) ==
  IF key_set THEN Return(<<>>) ELSE Raise("ValueError")

\* deepseek.classify_intent (module-level convenience function)
classify_intent(key_set, reply) ==
  IF get_deepseek_client(key_set).raised
    THEN get_deepseek_client(key_set)
    ELSE Return(DeepSeekClient_classify_intent(reply))

\* IntentDetector.detect_intent after the regex path returned None
detect_intent_fallback(key_set, reply) ==
  LET llm_result == classify_intent(key_set, reply)
  IN  IF llm_result.raised THEN SmallTalkDefault(30) ELSE llm_result.value

\* ------------------------------------------------------ completion capability
CompletionReplies ==
  {[kind |-> "ok", content |-> <<"Hello there.">>, exc |-> ""],
   [kind |-> "none", content |-> <<>>, exc |-> ""],
   [kind |-> "raise", content |-> <<>>, exc |-> "APITimeoutError"],
   [kind |-> "raise", content |-> <<>>, exc |-> "RateLimitError"]}

\* DeepSeekClient._non_streaming_completion via chat_completion(stream=False):
\* a provider error is re-raised, a null content fails in len(content)
chat_completion(key_set, reply) ==
  IF get_deepseek_client(key_set).raised
    THEN get_deepseek_client(key_set)
    ELSE CASE reply.kind = "ok" -> Return(reply.content)
           [] reply.kind = "none" -> Raise("TypeError")
           [] OTHER -> Raise(reply.exc)

\* ------------------------------------------------------------ chat turn
StubMarker == "(stub)"

StubEntry(title, body, kind) == [title |-> title, body |-> body, kind |-> kind]

\* A lookup that always falls back to the default entry
stub_cards_default(intent) ==
  StubEntry("Action Completed", <<"Your request has been processed.", StubMarker>>, "info")

\* The stub_cards table of generate_stub_card; a body is its sentence
\* followed by the stub marker.
stub_cards(intent) ==
  CASE intent = "journal.start" ->
         StubEntry("Journal Session", <<"Opening your journal overlay...", StubMarker>>, "journal")
    [] intent = "gratitude.add" ->
         StubEntry("Gratitude Added", <<"I've noted your gratitude entry.", StubMarker>>, "gratitude")
    [] intent = "todo.add" ->
         StubEntry("To-Do Added", <<"Added to your to-do list.", StubMarker>>, "todo")
    [] intent = "todo.list" ->
         StubEntry("Your To-Dos", <<"Here are your open tasks...", StubMarker>>, "todo")
    [] intent = "todo.complete" ->
         StubEntry("To-Do Completed", <<"Marked as completed.", StubMarker>>, "todo")
    [] intent = "todo.delete" ->
         StubEntry("To-Do Deleted", <<"Removed from your list.", StubMarker>>, "todo")
    [] intent = "quote.get" ->
         StubEntry("Spiritual Quote", <<"Here's a quote for reflection...", StubMarker>>, "quote")
    [] intent = "meditation.play" ->
         StubEntry("Meditation Starting", <<"Preparing your meditation...", StubMarker>>, "meditation")
    [] intent = "session.end" ->
         StubEntry("Session Ending", <<"Take care, talk soon!", StubMarker>>, "info")
    [] OTHER ->
         StubEntry("Action Completed", <<"Your request has been processed.", StubMarker>>, "info")

\* A generate_stub_card that reports the extracted arguments in the title
generate_stub_card_args(intent, args) ==
  IF ~Hashable(intent)
    THEN Raise("TypeError")
    ELSE LET card_data == stub_cards(intent)
         IN  Return(<<ok_card(IF args = {} THEN card_data.title ELSE "With arguments",
                              card_data.body, <<Meta(card_data.kind)>>, <<>>,
                              <<Diagnostics("llm.chat_turn", 0)>>)>>)
\* llm.generate_stub_card: dict.get raises TypeError on an unhashable key
generate_stub_card(intent, args) ==
  IF ~Hashable(intent)
    THEN Raise("TypeError")
    ELSE LET card_data == stub_cards(intent)
         IN  Return(<<ok_card(card_data.title, card_data.body,
                              <<Meta(card_data.kind)>>, <<>>,
                              <<Diagnostics("llm.chat_turn", 0)>>)>>)

\* What chat_turn hands back: a returned card, or an exception that leaves it
Returned(c) == [card |-> <<c>>, escaped |-> FALSE]

Escaped == [card |-> <<>>, escaped |-> TRUE]

\* An outermost handler that re-raises
chat_turn_except_reraise(exc, duration_ms) == Escaped

\* chat_turn's outermost handler (except Exception)
chat_turn_except(exc, duration_ms) ==
  Returned(error_card("Processing Error",
                      <<"Something went wrong processing your request. Please try again.">>,
                      "TURN_PROCESSING_FAILED", "llm.chat_turn",
                      <<Diagnostics("llm.chat_turn", duration_ms)>>))

\* A completion handler that shows the provider error to the user
completion_except_leaky(exc, duration_ms) ==
  Returned(error_card("Chat Error",
                      <<"I'm having trouble responding right now. Please try again.", exc>>,
                      "LLM_COMPLETION_FAILED", "llm.chat_turn",
                      <<Diagnostics("llm.chat_turn", duration_ms)>>))
\* chat_turn's handler around the completion call
completion_except(exc, duration_ms) ==
  Returned(error_card("Chat Error",
                      <<"I'm having trouble responding right now. Please try again.">>,
                      "LLM_COMPLETION_FAILED", "llm.chat_turn",
                      <<Diagnostics("llm.chat_turn", duration_ms)>>))

\* A routing test that sends every intent to the completion call
IsSmallTalk_always(intent) == TRUE

\* Routing test of step 3
IsSmallTalk(intent) == intent = "small_talk"

\* The fields of a request body; ChatTurnRequest requires text and user_id
RequestFields == {"text", "user_id", "conversation_id", "session_id", "trace_id"}

RequiredFields == {"text", "user_id"}

\* Bodies with and without the required fields
RequestBodies == {body \in SUBSET RequestFields : body \subseteq RequiredFields}

\* A request model that requires the text only
ChatTurnRequest_text_only(body) == "text" \in body

\* Validation of the body against ChatTurnRequest
ChatTurnRequest(body) == RequiredFields \subseteq body

\* The endpoint answers 200 with the returned card; an exception that
\* leaves chat_turn would be answered 500
Finish(outcome) ==
  /\ card' = outcome.card
  /\ escaped' = outcome.escaped
  /\ http_status' = IF outcome.escaped THEN 500 ELSE 200
  /\ pc' = "done"

\* No completion call yet
NoResponse == [deltas |-> <<>>, fail_at |-> 0, fallback_ok |-> TRUE]

CompletionIdle ==
  /\ s_pc = "idle"
  /\ use_streaming = FALSE
  /\ s_resp = NoResponse
  /\ s_idx = 0
  /\ buffer = <<>>
  /\ yielded = <<>>
  /\ s_result = <<>>
\* No relay session yet
RelayIdle ==
  /\ h_pc = "idle"
  /\ c2d_pc = "idle"
  /\ d2c_pc = "idle"
  /\ c2d_exit = ""
  /\ d2c_exit = ""
  /\ client_open = FALSE
  /\ dg_ws = "none"
  /\ dg_queue = <<>>
  /\ received = <<>>
  /\ to_dg = <<>>
  /\ to_client = <<>>
Init ==
  /\ pc = "idle"
  /\ text = <<>>
  /\ api_key \in BOOLEAN
  /\ now = 0
  /\ start_time = 0
  /\ safety_card = <<>>
  /\ intent_result = <<>>
  /\ card = <<>>
  /\ escaped = FALSE
  /\ calls = <<>>
  /\ log = <<>>
  /\ request = <<>>
  /\ http_status = 0
  /\ RelayIdle
  /\ CompletionIdle

\* chat_turn is entered with a validated request: start_time is taken
ChatTurnStart(t) ==
  /\ pc = "idle"
  /\ pc' = "safety"
  /\ text' = t
  /\ start_time' = now
  /\ log' = Append(log, LogRecord("Processing chat turn", masked_text(t)))
  /\ UNCHANGED <<api_key, now, safety_card, intent_result, card, escaped, calls,
                 http_status>>
  /\ UNCHANGED <<relay_vars, llm_vars>>

\* POST /chat/turn: the body is validated against ChatTurnRequest before
\* chat_turn is called; a body that fails is answered 422
PostChatTurn(body, t) ==
  /\ pc = "idle"
  /\ request' = <<body>>
  /\ IF ChatTurnRequest(body)
       THEN ChatTurnStart(t)
       ELSE /\ pc' = "rejected"
            /\ http_status' = 422
            /\ UNCHANGED <<text, api_key, now, start_time, safety_card,
                           intent_result, card, escaped, calls, log>>
            /\ UNCHANGED <<relay_vars, llm_vars>>

\* Step 1: await run_safety_check(...)
RunSafetyCheck(slow) ==
  /\ pc = "safety"
  /\ calls' = Append(calls, "safety_check")
  /\ now' = now + (IF slow THEN SafetyTimeoutMs ELSE 0)
  /\ LET r == run_safety_check(text, slow)
     IN  IF r.raised
           THEN /\ Finish(chat_turn_except(r.exc, now' - start_time))
                /\ UNCHANGED safety_card
           ELSE /\ safety_card' = r.value
                /\ pc' = "after_safety"
                /\ UNCHANGED <<card, escaped, http_status>>
  /\ log' = IF run_safety_check(text, slow).value # <<>>
              THEN Append(log, LogRecord("Safety check triggered", masked_text(text)))
              ELSE log
  /\ UNCHANGED <<text, api_key, start_time, intent_result, request>>
  /\ UNCHANGED <<relay_vars, llm_vars>>

\* The short-circuit branch: the safety card is returned with its
\* duration_ms overwritten, and nothing else changed
short_circuit(c, duration_ms) == [c EXCEPT !.diagnostics.duration_ms = duration_ms]

\* if safety_card: return it; else detect_intent starts with the regex path
AfterSafety ==
  /\ pc = "after_safety"
  /\ IF safety_card # <<>>
       THEN /\ Finish(Returned(short_circuit(safety_card[1], now - start_time)))
            /\ UNCHANGED <<intent_result, calls, log>>
       ELSE /\ calls' = Append(calls, "_try_regex_patterns")
            /\ intent_result' = _try_regex_patterns(text)
            /\ pc' = IF intent_result' # <<>> THEN "route" ELSE "classify"
            /\ log' = Append(log, LogRecord(IF intent_result' # <<>>
                                              THEN "Intent detected via regex"
                                              ELSE "No regex match, using LLM classifier",
                                            _mask_text(text, 20)))
            /\ UNCHANGED <<card, escaped, http_status>>
  /\ UNCHANGED <<text, api_key, now, start_time, safety_card, request>>
  /\ UNCHANGED <<relay_vars, llm_vars>>

\* detect_intent: await classify_intent(text)
ClassifyIntent(reply) ==
  /\ pc = "classify"
  /\ calls' = Append(calls, "classify_intent")
  /\ intent_result' = <<detect_intent_fallback(api_key, reply)>>
  /\ log' = Append(log, LogRecord(IF classify_intent(api_key, reply).raised
                                    THEN "LLM classification failed, defaulting to small_talk"
                                    ELSE "Intent detected via LLM",
                                  _mask_text(text, 20)))
  /\ pc' = "route"
  /\ UNCHANGED <<text, api_key, now, start_time, safety_card, card, escaped,
                 request, http_status>>
  /\ UNCHANGED <<relay_vars, llm_vars>>

\* Step 3, small talk: await chat_completion(messages, stream=False)
RouteSmallTalk(reply) ==
  /\ pc = "route"
  /\ IsSmallTalk(intent_result[1].intent)
  /\ calls' = Append(calls, "chat_completion")
  /\ LET r == chat_completion(api_key, reply)
     IN  IF r.raised
           THEN Finish(completion_except(r.exc, now - start_time))
           ELSE Finish(Returned(ok_card("Chat Response", r.value, <<Meta("info")>>, <<>>,
                                        <<Diagnostics("llm.chat_turn", now - start_time)>>)))
  /\ UNCHANGED <<text, api_key, now, start_time, safety_card, intent_result, log,
                 request>>
  /\ UNCHANGED <<relay_vars, llm_vars>>

\* Step 3, tool intent: generate_stub_card and stamp the duration
RouteToolIntent ==
  /\ pc = "route"
  /\ ~IsSmallTalk(intent_result[1].intent)
  /\ calls' = Append(calls, "generate_stub_card")
  /\ LET r == generate_stub_card(intent_result[1].intent, intent_result[1].args)
     IN  IF r.raised
           THEN Finish(chat_turn_except(r.exc, now - start_time))
           ELSE Finish(Returned([r.value[1] EXCEPT
                                   !.diagnostics.duration_ms = now - start_time]))
  /\ UNCHANGED <<text, api_key, now, start_time, safety_card, intent_result, log,
                 request>>
  /\ UNCHANGED <<relay_vars, llm_vars>>

\* Arguments with which the tools and middlewares call the card helpers
HelperMetas == {<<>>, <<[Meta("journal") EXCEPT !.action = "start_overlay"]>>}

HelperDiagnostics == {<<>>, <<Diagnostics("journal.start", 5)>>}

HelperErrorCodes == {"UNAUTHORIZED", "VALIDATION_ERROR", "UNEXPECTED"}

\* A tool or middleware builds its response with one of the envelope helpers
BuildCard(helper, meta, diagnostics, error_code) ==
  /\ pc = "idle"
  /\ pc' = "built"
  /\ card' = CASE helper = "ok_card" ->
                   <<ok_card("Title", <<"Body">>, meta, <<>>, diagnostics)>>
              [] helper = "error_card" ->
                   <<error_card("Title", <<"Body">>, error_code, "todo.add", diagnostics)>>
              [] OTHER ->
                   <<overlay_control("Title", <<"Body">>, meta, diagnostics)>>
  /\ UNCHANGED <<text, api_key, now, start_time, safety_card, intent_result,
                 escaped, calls, log, request, http_status>>
  /\ UNCHANGED <<relay_vars, llm_vars>>

\* A tool call goes through error_mw
ErrorMw(outcome) ==
  /\ pc = "idle"
  /\ pc' = "built"
  /\ card' = <<error_mw("todo.list", outcome)>>
  /\ UNCHANGED <<text, api_key, now, start_time, safety_card, intent_result,
                 escaped, calls, log, request, http_status>>
  /\ UNCHANGED <<relay_vars, llm_vars>>

Next ==
  \/ /\ pc = "idle"
     /\ \E body \in RequestBodies, t \in Texts : PostChatTurn(body, t)
  \/ \E outcome \in HandlerOutcomes : ErrorMw(outcome)
  \/ \E helper \in {"ok_card", "error_card", "overlay_control"},
        meta \in HelperMetas, diagnostics \in HelperDiagnostics,
        error_code \in HelperErrorCodes :
          BuildCard(helper, meta, diagnostics, error_code)
  \/ \E slow \in BOOLEAN : RunSafetyCheck(slow)
  \/ AfterSafety
  \/ \E reply \in ClassifierReplies : ClassifyIntent(reply)
  \/ \E reply \in CompletionReplies : RouteSmallTalk(reply)
  \/ RouteToolIntent

Spec == Init /\ [][Next]_vars

\* ---------------------------------------------- the short-circuit branch
\* The branch "if safety_card:" of chat_turn, taken on the cards that
\* safety_tool.check returns when its caller supplies a context with a
\* timer (as the tool server's timing middleware does).
ToolElapsed == {0, 5}

GateCheck(t, ms) ==
  /\ pc = "idle"
  /\ text' = t
  /\ start_time' = now
  /\ now' = now + ms
  /\ calls' = Append(calls, "safety_check")
  /\ LET safety_result == check(TimingCtx(ms), t)
     IN  safety_card' = IF safety_result.value[1].meta.action = "show_support_card"
                          THEN safety_result.value
                          ELSE <<>>
  /\ pc' = "after_safety"
  /\ UNCHANGED <<api_key, intent_result, card, escaped, log, request, http_status>>
  /\ UNCHANGED <<relay_vars, llm_vars>>

InitGate == Init /\ api_key

NextGate ==
  \/ /\ pc = "idle"
     /\ \E t \in Texts, ms \in ToolElapsed : GateCheck(t, ms)
  \/ AfterSafety

SpecGate == InitGate /\ [][NextGate]_vars

\* ------------------------------------------------ speech-to-text relay
\* Bounds: upstream messages per session, audio chunks per session
MaxUp == 3

MaxAudio == 1

\* One entry of channel.alternatives; an absent key is an empty sequence
Alternative(transcript, confidence) ==
  [transcript |-> transcript, confidence |-> confidence]

\* A message read from the upstream socket: json says whether json.loads
\* accepts it; channel is absent or holds the key "alternatives" (absent, or
\* a list) and the key "index"; is_final is absent, true or false.
UpstreamMessage(json, channel, is_final) ==
  [json |-> json, channel |-> channel, is_final |-> is_final]

Channel(alternatives, index) == [alternatives |-> alternatives, index |-> index]

UpstreamMessages ==
  {UpstreamMessage(FALSE, <<>>, <<>>),
   UpstreamMessage(TRUE, <<>>, <<>>),
   UpstreamMessage(TRUE, <<Channel(<< <<>> >>, <<>>)>>, <<FALSE>>),
   UpstreamMessage(TRUE, <<Channel(<< <<Alternative(<<"hello">>, <<91>>)>> >>, <<>>)>>,
                   <<FALSE>>),
   UpstreamMessage(TRUE, <<Channel(<< <<Alternative(<<"hello world">>, <<98>>)>> >>, <<0>>)>>,
                   <<TRUE>>),
   UpstreamMessage(TRUE, <<Channel(<< <<Alternative(<<>>, <<>>)>> >>, <<>>)>>, <<>>)}

TranscriptEvent(is_final, event_text, channel, confidence) ==
  [is_final |-> is_final, text |-> event_text, channel |-> channel,
   confidence |-> confidence]

\* A parser that answers an empty event where no transcript can be read
_parse_transcript_message_lenient(data) ==
  IF data.channel # <<>> /\ data.channel[1].alternatives # <<>>
       /\ data.channel[1].alternatives[1] # <<>>
    THEN LET alternative == data.channel[1].alternatives[1][1]
         IN  <<TranscriptEvent(
                 IF data.is_final = <<>> THEN FALSE ELSE data.is_final[1],
                 IF alternative.transcript = <<>> THEN "" ELSE alternative.transcript[1],
                 data.channel[1].index,
                 alternative.confidence)>>
    ELSE <<TranscriptEvent(FALSE, "", <<>>, <<>>)>>
\* DeepgramSTTClient._parse_transcript_message: an event, or None (<<>>)
_parse_transcript_message(data) ==
  IF data.channel # <<>> /\ data.channel[1].alternatives # <<>>
    THEN LET channel_data == data.channel[1]
             alternatives == channel_data.alternatives[1]
         IN  IF alternatives # <<>>
               THEN LET alternative == alternatives[1]
                    IN  <<TranscriptEvent(
                            IF data.is_final = <<>> THEN FALSE ELSE data.is_final[1],
                            IF alternative.transcript = <<>>
                              THEN "" ELSE alternative.transcript[1],
                            channel_data.index,
                            alternative.confidence)>>
               ELSE <<>>
    ELSE <<>>

\* A frame sent to the client is a JSON object; an empty sequence is a key
\* the object does not have.
Frame(type, frame_text, confidence, channel, error) ==
  [type |-> type, text |-> frame_text, confidence |-> confidence,
   channel |-> channel, error |-> error]

\* A response that always carries both optional keys
response_all_keys(transcript_event) ==
  Frame(IF transcript_event.is_final THEN "final" ELSE "partial",
        <<transcript_event.text>>,
        IF transcript_event.confidence = <<>> THEN <<0>> ELSE transcript_event.confidence,
        IF transcript_event.channel = <<>> THEN <<0>> ELSE transcript_event.channel,
        <<>>)

\* deepgram_to_client: the response built for a transcript event
response(transcript_event) ==
  Frame(IF transcript_event.is_final THEN "final" ELSE "partial",
        <<transcript_event.text>>,
        transcript_event.confidence,
        transcript_event.channel,
        <<>>)

\* get_stt_client() without an API key; websockets.connect() refused
SetupFailures ==
  {Exception("ValueError", "DEEPGRAM_API_KEY environment variable is required"),
   Exception("InvalidStatus", "server rejected WebSocket connection: HTTP 401")}

\* test_stt's outermost handler: the frame it sends to the client
error_response(e) == Frame("error", <<>>, <<>>, <<>>, <<str(e)>>)

\* What websocket.receive() returns
ClientMessage(type, bytes, msg_text) ==
  [type |-> type, bytes |-> bytes, text |-> msg_text]

ClientTexts == {"stop", "STOP", "{\"type\": \"CloseStream\"}", "hello"}

ClientMessages ==
  {ClientMessage("websocket.receive", <<"audio">>, <<>>),
   ClientMessage("websocket.disconnect", <<>>, <<>>)}
  \cup {ClientMessage("websocket.receive", <<>>, <<t>>) : t \in ClientTexts}

\* What websocket.receive() returns once the client has gone
DisconnectMessage == ClientMessage("websocket.disconnect", <<>>, <<>>)

\* str.lower() on a control text
ControlLower(t) == IF t = "STOP" THEN "stop" ELSE t

\* A control test that only knows the lower-case token
IsStopControl_exact(t) == t = "stop"

\* client_to_deepgram: the control texts that end the stream
IsStopControl(t) == ControlLower(t) = "stop" \/ t = "{\"type\": \"CloseStream\"}"

CloseStream == "CloseStream"

\* dg_ws.send(payload) raises ConnectionClosed once upstream has closed
dg_ws_send(payload) ==
  IF dg_ws = "open" THEN Return(Append(to_dg, payload)) ELSE Raise("ConnectionClosed")

\* A relay that delivers the newest transcript first
send_text_front(frames, frame) == <<frame>> \o frames

\* websocket.send_text(json.dumps(response)) on an open client connection
send_text(frames, frame) == Append(frames, frame)

\* A session that keeps the upstream connection after the relay
aexit_keep(ws) == ws

\* Leaving "async with websockets.connect(...) as dg_ws" closes the socket
aexit(ws) == "released"

\* await websocket.accept()
Accept ==
  /\ h_pc = "idle"
  /\ h_pc' = "connecting"
  /\ client_open' = TRUE
  /\ UNCHANGED <<c2d_pc, d2c_pc, c2d_exit, d2c_exit, dg_ws, dg_queue, received,
                 to_dg, to_client>>
  /\ UNCHANGED <<chat_vars, llm_vars>>

\* The connection to the client ends when the endpoint function returns
\* (the server closes it); the handler itself never calls close().
EndpointReturns ==
  /\ h_pc' = "returned"
  /\ client_open' = FALSE

\* get_stt_client() and websockets.connect(): on success both relay tasks
\* start; a failure goes to the outermost handler, which tries to send an
\* error frame (the send fails silently when the client has gone).
Connect(outcome) ==
  /\ h_pc = "connecting"
  /\ IF outcome.raised
       THEN /\ to_client' = IF client_open
                              THEN send_text(to_client, error_response(outcome.exc))
                              ELSE to_client
            /\ EndpointReturns
            /\ UNCHANGED <<c2d_pc, d2c_pc, dg_ws>>
       ELSE /\ dg_ws' = "open"
            /\ h_pc' = "streaming"
            /\ c2d_pc' = "receive"
            /\ d2c_pc' = "recv"
            /\ UNCHANGED <<client_open, to_client>>
  /\ UNCHANGED <<c2d_exit, d2c_exit, dg_queue, received, to_dg>>
  /\ UNCHANGED <<chat_vars, llm_vars>>

\* The client goes away
ClientCloses ==
  /\ h_pc \in {"connecting", "streaming"}
  /\ client_open
  /\ client_open' = FALSE
  /\ UNCHANGED <<h_pc, c2d_pc, d2c_pc, c2d_exit, d2c_exit, dg_ws, dg_queue,
                 received, to_dg, to_client>>
  /\ UNCHANGED <<chat_vars, llm_vars>>

\* Upstream emits a message
UpstreamSends(message) ==
  /\ dg_ws = "open"
  /\ Len(received) + Len(dg_queue) < MaxUp
  /\ dg_queue' = Append(dg_queue, message)
  /\ UNCHANGED <<h_pc, c2d_pc, d2c_pc, c2d_exit, d2c_exit, client_open, dg_ws,
                 received, to_dg, to_client>>
  /\ UNCHANGED <<chat_vars, llm_vars>>

\* Upstream closes its side, normally or not
UpstreamCloses(clean) ==
  /\ dg_ws = "open"
  /\ dg_ws' = IF clean THEN "closed_ok" ELSE "closed_error"
  /\ UNCHANGED <<h_pc, c2d_pc, d2c_pc, c2d_exit, d2c_exit, client_open,
                 dg_queue, received, to_dg, to_client>>
  /\ UNCHANGED <<chat_vars, llm_vars>>

\* A client task that ends without telling upstream
SendCloseStream_silent(why) ==
  /\ c2d_pc' = "done"
  /\ c2d_exit' = why
  /\ UNCHANGED to_dg
\* client_to_deepgram sends CloseStream and sleeps, or the send raises and
\* "except Exception" ends the task
SendCloseStream(why) ==
  LET r == dg_ws_send(CloseStream)
  IN  IF r.raised
        THEN /\ c2d_pc' = "done"
             /\ c2d_exit' = "error"
             /\ UNCHANGED to_dg
        ELSE /\ to_dg' = r.value
             /\ c2d_pc' = "grace"
             /\ c2d_exit' = why

\* client_to_deepgram: one iteration of "msg = await websocket.receive()"
C2DReceive(msg) ==
  /\ h_pc = "streaming"
  /\ c2d_pc = "receive"
  /\ (msg.type = "websocket.disconnect") <=> ~client_open
  /\ IF msg.type = "websocket.receive"
       THEN IF msg.bytes # <<>>
              THEN /\ Cardinality({i \in 1..Len(to_dg) : to_dg[i] # CloseStream}) < MaxAudio
                   /\ LET r == dg_ws_send(msg.bytes[1])
                      IN  IF r.raised
                            THEN /\ c2d_pc' = "done"
                                 /\ c2d_exit' = "error"
                                 /\ UNCHANGED to_dg
                            ELSE /\ to_dg' = r.value
                                 /\ UNCHANGED <<c2d_pc, c2d_exit>>
              ELSE IF msg.text # <<>> /\ IsStopControl(msg.text[1])
                     THEN SendCloseStream("stop")
                     ELSE UNCHANGED <<c2d_pc, c2d_exit, to_dg>>
       ELSE SendCloseStream("disconnect")
  /\ UNCHANGED <<h_pc, d2c_pc, d2c_exit, client_open, dg_ws, dg_queue, received,
                 to_client>>
  /\ UNCHANGED <<chat_vars, llm_vars>>

\* A client task that goes back to reading after the grace delay
C2DGraceElapsed_loop ==
  /\ h_pc = "streaming"
  /\ c2d_pc = "grace"
  /\ c2d_pc' = "receive"
  /\ UNCHANGED <<h_pc, d2c_pc, c2d_exit, d2c_exit, client_open, dg_ws, dg_queue,
                 received, to_dg, to_client>>
  /\ UNCHANGED <<chat_vars, llm_vars>>
\* client_to_deepgram: asyncio.sleep(0.5) is over, the task ends
C2DGraceElapsed ==
  /\ h_pc = "streaming"
  /\ c2d_pc = "grace"
  /\ c2d_pc' = "done"
  /\ UNCHANGED <<h_pc, d2c_pc, c2d_exit, d2c_exit, client_open, dg_ws, dg_queue,
                 received, to_dg, to_client>>
  /\ UNCHANGED <<chat_vars, llm_vars>>

\* A relay loop that breaks after a final transcript
D2CMessage_break ==
  /\ h_pc = "streaming"
  /\ d2c_pc = "recv"
  /\ dg_queue # <<>>
  /\ LET message == Head(dg_queue)
         transcript_event == IF message.json THEN _parse_transcript_message(message)
                                             ELSE <<>>
     IN  /\ dg_queue' = Tail(dg_queue)
         /\ received' = Append(received, [message |-> message, open |-> client_open])
         /\ to_client' = IF transcript_event # <<>> /\ client_open
                           THEN send_text(to_client, response(transcript_event[1]))
                           ELSE to_client
         /\ d2c_pc' = IF transcript_event # <<>> /\ transcript_event[1].is_final
                        THEN "done" ELSE "recv"
  /\ UNCHANGED <<h_pc, c2d_pc, c2d_exit, d2c_exit, client_open, dg_ws, to_dg>>
  /\ UNCHANGED <<chat_vars, llm_vars>>
\* deepgram_to_client: one iteration of "async for message in dg_ws".  A
\* message that is not JSON is skipped; a transcript event is sent to the
\* client; a failing send is caught by the inner handler and skipped.
D2CMessage ==
  /\ h_pc = "streaming"
  /\ d2c_pc = "recv"
  /\ dg_queue # <<>>
  /\ LET message == Head(dg_queue)
         transcript_event == IF message.json THEN _parse_transcript_message(message)
                                             ELSE <<>>
     IN  /\ dg_queue' = Tail(dg_queue)
         /\ received' = Append(received, [message |-> message, open |-> client_open])
         /\ to_client' = IF transcript_event # <<>> /\ client_open
                           THEN send_text(to_client, response(transcript_event[1]))
                           ELSE to_client
  /\ UNCHANGED <<h_pc, c2d_pc, d2c_pc, c2d_exit, d2c_exit, client_open, dg_ws, to_dg>>
  /\ UNCHANGED <<chat_vars, llm_vars>>

\* deepgram_to_client: the iteration ends when upstream has closed and every
\* message was read; an abnormal close raises into "except Exception"
D2CEnd ==
  /\ h_pc = "streaming"
  /\ d2c_pc = "recv"
  /\ dg_queue = <<>>
  /\ dg_ws \in {"closed_ok", "closed_error"}
  /\ d2c_pc' = "done"
  /\ d2c_exit' = IF dg_ws = "closed_ok" THEN "closed" ELSE "error"
  /\ UNCHANGED <<h_pc, c2d_pc, c2d_exit, client_open, dg_ws, dg_queue, received,
                 to_dg, to_client>>
  /\ UNCHANGED <<chat_vars, llm_vars>>

\* asyncio.gather returns once both tasks have ended (neither lets an
\* exception out); the "async with" block is left and test_stt returns
GatherDone ==
  /\ h_pc = "streaming"
  /\ c2d_pc = "done"
  /\ d2c_pc = "done"
  /\ dg_ws' = aexit(dg_ws)
  /\ EndpointReturns
  /\ UNCHANGED <<c2d_pc, d2c_pc, c2d_exit, d2c_exit, dg_queue, received, to_dg,
                 to_client>>
  /\ UNCHANGED <<chat_vars, llm_vars>>

ConnectOutcomes == {Return("open")} \cup {Raise(e) : e \in SetupFailures}

InitRelay == Init /\ api_key

NextRelay ==
  \/ Accept
  \/ \E outcome \in ConnectOutcomes : Connect(outcome)
  \/ ClientCloses
  \/ \E message \in UpstreamMessages : UpstreamSends(message)
  \/ \E clean \in BOOLEAN : UpstreamCloses(clean)
  \/ \E msg \in ClientMessages : C2DReceive(msg)
  \/ C2DGraceElapsed
  \/ D2CMessage
  \/ D2CEnd
  \/ GatherDone

SpecRelay == InitRelay /\ [][NextRelay]_vars
\* The event loop runs a task that is ready and a sleep comes to its end:
\* the steps of the relay that wait for nobody are taken eventually.
SpecRelayFair ==
  /\ SpecRelay
  /\ WF_vars(C2DGraceElapsed)
  /\ WF_vars(D2CMessage)
  /\ WF_vars(D2CEnd)
  /\ WF_vars(GatherDone)

\* Besides, the client task reads the disconnect of a client that has gone
\* (the receive call returns at once), and upstream does not keep its
\* connection for ever: it closes after CloseStream, and on its own when no
\* audio arrives.
SpecRelayLive ==
  /\ SpecRelayFair
  /\ WF_vars(C2DReceive(DisconnectMessage))
  /\ WF_vars(\E clean \in BOOLEAN : UpstreamCloses(clean))

\* ------------------------------------ completion: streaming and otherwise
MaxChunks == 3

\* chunk.choices[0].delta.content of one streamed chunk; <<>> is a chunk
\* without content
Deltas == {<<>>, <<"Hello">>, <<" there.">>}

\* What the provider answers to one request: the chunks of the stream, the
\* chunk at whose reading the stream breaks (0: it does not break), and
\* whether a non-streaming request succeeds
ProviderResponses ==
  {r \in [deltas : UNION {[1..n -> Deltas] : n \in 0..MaxChunks},
          fail_at : 0..(MaxChunks + 1),
          fallback_ok : BOOLEAN] : r.fail_at <= Len(r.deltas) + 1}

\* "".join(chunks)
RECURSIVE join(_)
join(chunks) == IF chunks = <<>> THEN <<>> ELSE Head(chunks) \o join(Tail(chunks))

\* response.choices[0].message.content: the whole text of the response
message_content(resp) == join(resp.deltas)

\* DeepSeekClient._non_streaming_completion
_non_streaming_completion(resp) ==
  IF resp.fallback_ok THEN Return(message_content(resp)) ELSE Raise("APITimeoutError")

\* DeepSeekClient.chat_completion: the streaming branch awaits the async
\* generator object that _stream_completion(...) returns, which raises
\* TypeError; the handler logs and re-raises
DeepSeekClient_chat_completion(resp, streaming) ==
  IF streaming THEN Raise("TypeError") ELSE _non_streaming_completion(resp)

\* await client.chat_completion(messages, max_tokens, stream)
ChatCompletion(resp, streaming) ==
  /\ s_pc = "idle"
  /\ s_resp' = resp
  /\ use_streaming' = streaming
  /\ s_result' = <<DeepSeekClient_chat_completion(resp, streaming)>>
  /\ s_pc' = IF s_result'[1].raised THEN "raised" ELSE "returned"
  /\ UNCHANGED <<s_idx, buffer, yielded>>
  /\ UNCHANGED <<chat_vars, relay_vars>>

\* async for chunk in client._stream_completion(...): the generator starts
StreamStart(resp) ==
  /\ s_pc = "idle"
  /\ s_resp' = resp
  /\ use_streaming' = TRUE
  /\ s_idx' = 1
  /\ s_pc' = "iterating"
  /\ UNCHANGED <<buffer, yielded, s_result>>
  /\ UNCHANGED <<chat_vars, relay_vars>>

\* One step of "async for chunk in response": a chunk with content is
\* buffered and yielded, one without is passed over; an exception goes to
\* the fallback handler
StreamNext ==
  /\ s_pc = "iterating"
  /\ IF s_idx = s_resp.fail_at
       THEN /\ s_pc' = "fallback"
            /\ UNCHANGED <<s_idx, buffer, yielded>>
       ELSE IF s_idx > Len(s_resp.deltas)
         THEN /\ s_pc' = "exhausted"
              /\ UNCHANGED <<s_idx, buffer, yielded>>
         ELSE LET content == s_resp.deltas[s_idx]
              IN  /\ buffer' = IF content # <<>> THEN Append(buffer, content) ELSE buffer
                  /\ yielded' = IF content # <<>> THEN Append(yielded, content) ELSE yielded
                  /\ s_idx' = s_idx + 1
                  /\ UNCHANGED s_pc
  /\ UNCHANGED <<use_streaming, s_resp, s_result>>
  /\ UNCHANGED <<chat_vars, relay_vars>>

\* except Exception: the whole non-streaming result is yielded as one chunk,
\* or the fallback's exception is raised
StreamFallback ==
  /\ s_pc = "fallback"
  /\ LET result == _non_streaming_completion(s_resp)
     IN  IF result.raised
           THEN /\ s_result' = <<result>>
                /\ s_pc' = "raised"
                /\ UNCHANGED yielded
           ELSE /\ yielded' = Append(yielded, result.value)
                /\ s_pc' = "exhausted"
                /\ UNCHANGED s_result
  /\ UNCHANGED <<use_streaming, s_resp, s_idx, buffer>>
  /\ UNCHANGED <<chat_vars, relay_vars>>

InitCompletion == Init /\ api_key

NextCompletion ==
  \/ \E resp \in ProviderResponses, streaming \in BOOLEAN : ChatCompletion(resp, streaming)
  \/ \E resp \in ProviderResponses : StreamStart(resp)
  \/ StreamNext
  \/ StreamFallback

SpecCompletion == InitCompletion /\ [][NextCompletion]_vars
\* ------------------------------------------- the regex path on its own
MaxRegexLen == 5

\* Fragments on which each of the six patterns matches
RegexFragments ==
  {" ", "x", "start journal", "show my to-do", "Add to-do", "quote",
   "meditation", "bye"}

RegexTexts == UNION {[1..n -> RegexFragments] : n \in 0..MaxRegexLen}

\* detect_intent(text), step 1: the regex fast path
DetectRegex(t) ==
  /\ pc = "idle"
  /\ text' = t
  /\ calls' = Append(calls, "_try_regex_patterns")
  /\ intent_result' = _try_regex_patterns(t)
  /\ pc' = IF intent_result' # <<>> THEN "route" ELSE "classify"
  /\ log' = Append(log, LogRecord(IF intent_result' # <<>>
                                    THEN "Intent detected via regex"
                                    ELSE "No regex match, using LLM classifier",
                                  _mask_text(t, 20)))
  /\ UNCHANGED <<api_key, now, start_time, safety_card, card, escaped, request,
                 http_status>>
  /\ UNCHANGED <<relay_vars, llm_vars>>

NextRegex ==
  /\ pc = "idle"
  /\ \E t \in RegexTexts : DetectRegex(t)

SpecRegex == Init /\ [][NextRegex]_vars
\* ------------------------------------------------------------ properties
SafetyStageDone == Len(calls) >= 1

RegexDone == Len(calls) >= 2 /\ calls[2] = "_try_regex_patterns"

ClassifierCalled == Len(calls) >= 3 /\ calls[3] = "classify_intent"

\* intent_result is what the regex path returned
RegexReturned == RegexDone /\ ~ClassifierCalled /\ pc # "classify"

TimedOut == now - start_time >= SafetyTimeoutMs

\* C1: a turn whose text contains a crisis phrase (and whose safety check
\* met its deadline) ends with the ok support card, and no later stage ran.
C1_SafetyShortCircuit ==
  (pc = "done" /\ found_concerns(text) # <<>> /\ ~TimedOut) =>
     /\ card # <<>>
     /\ card[1].status = "ok"
     /\ card[1].meta.action = "show_support_card"
     /\ calls = <<"safety_check">>

\* C2: when the safety check times out or raises, run_safety_check yields
\* None, no card or exception is produced by that step, and the next step of
\* the turn is intent detection.
C2_SafetyFailOpen ==
  [][ /\ (/\ pc = "safety"
          /\ pc' # "safety"
          /\ (now' - now >= SafetyTimeoutMs \/ check(NoCtx, text).raised))
         => (pc' = "after_safety" /\ safety_card' = <<>> /\ card' = <<>> /\ ~escaped')
      /\ (pc = "after_safety" /\ pc' # "after_safety" /\ safety_card = <<>>)
         => (/\ calls' = Append(calls, "_try_regex_patterns")
             /\ pc' \in {"route", "classify"}
             /\ card' = <<>>
             /\ ~escaped') ]_vars

C2_Witness ==
  /\ pc = "classify"
  /\ TimedOut
  /\ calls = <<"safety_check", "_try_regex_patterns">>

\* C3: no exception leaves chat_turn; a finished turn has returned a Card,
\* and a failure without a stage-specific fallback (stub synthesis raising)
\* gives the TURN_PROCESSING_FAILED error card.
C3_NoExceptionEscapes ==
  /\ ~escaped
  /\ (pc = "done" => card # <<>>)
  /\ (/\ pc = "done"
      /\ calls[Len(calls)] = "generate_stub_card"
      /\ ~Hashable(intent_result[1].intent))
     => (card[1].status = "error" /\ card[1].error_code = "TURN_PROCESSING_FAILED")

C3_Witness ==
  /\ pc = "done"
  /\ card # <<>>
  /\ card[1].error_code = "TURN_PROCESSING_FAILED"

\* C4: the stages run in sequence (safety, then intent detection only when
\* the gate did not trigger, then response generation only once an intent
\* result exists); the completion is called at most once and only for
\* small_talk.
C4_StagesInSequence ==
  /\ \A i \in 1..Len(calls) :
       /\ (calls[i] = "safety_check" => i = 1)
       /\ (calls[i] = "_try_regex_patterns"
             => (i = 2 /\ calls[1] = "safety_check" /\ safety_card = <<>>))
       /\ (calls[i] = "classify_intent"
             => (i = 3 /\ calls[2] = "_try_regex_patterns"))
       /\ (calls[i] \in {"chat_completion", "generate_stub_card"}
             => (/\ i = Len(calls)
                 /\ i >= 3
                 /\ calls[2] = "_try_regex_patterns"
                 /\ intent_result # <<>>))
       /\ (calls[i] = "chat_completion" => intent_result[1].intent = "small_talk")
  /\ Cardinality({i \in 1..Len(calls) : calls[i] = "chat_completion"}) <= 1

C4_Witness ==
  /\ pc = "done"
  /\ calls = <<"safety_check", "_try_regex_patterns", "classify_intent",
               "chat_completion">>

EnvelopeInvariant(c) ==
  /\ (c.status = "error") <=> (c.error_code # None)
  /\ (c.status = "error") <=> (c.type = "error_card")

\* C5: every card returned by chat_turn, held as the safety card, or built
\* by ok_card / error_card / overlay_control has status = "error" iff
\* error_code is not null iff type = "error_card".
C5_EnvelopeInvariant ==
  /\ (card # <<>> => EnvelopeInvariant(card[1]))
  /\ (safety_card # <<>> => EnvelopeInvariant(safety_card[1]))

C5_Witness ==
  /\ pc = "done"
  /\ card # <<>>
  /\ card[1].error_code = "LLM_COMPLETION_FAILED"
  /\ card[1].type = "error_card"

\* The classification capability fails: the provider call raises, the
\* answer is not valid JSON, or it is JSON without all required keys
ClassifierFails(reply) ==
  \/ reply.kind = "raise"
  \/ reply.json # "object"
  \/ ~(RequiredKeys \subseteq reply.keys)

VerbAt(txt, i) ==
  /\ Lower(txt[i]) \in AddVerbs
  /\ WordBoundaryBefore(txt, i)
  /\ WordBoundaryAfter(txt, i)

\* The verb occurs and nothing but whitespace follows any occurrence
NoContentAfterVerb(txt) ==
  /\ \E i \in 1..Len(txt) : VerbAt(txt, i)
  /\ \A i \in 1..Len(txt) :
       VerbAt(txt, i) => \A j \in i+1..Len(txt) : txt[j] \in Whitespace

\* C7: the regex path never returns todo.add without non-blank content;
\* when the verb has no content after it (and no earlier pattern matched)
\* the result is that of the first later pattern that matches, else the
\* classifier is consulted.
C7_EmptyContentGuard ==
  /\ (RegexReturned /\ intent_result[1].intent = "todo.add")
       => \E a \in intent_result[1].args :
             /\ a[1] = "content"
             /\ \E k \in 1..Len(a[2]) : a[2][k] \notin Whitespace
  /\ (/\ RegexDone
      /\ NoContentAfterVerb(text)
      /\ ~\E k \in 1..2 : PatternSearch(patterns[k], text))
       => LET later == {k \in 4..Len(patterns) : PatternSearch(patterns[k], text)}
          IN  IF later # {}
                THEN RegexReturned /\ intent_result[1].intent = patterns[MinOf(later)]
                ELSE pc = "classify" \/ ClassifierCalled

C7_Witness ==
  /\ pc = "route"
  /\ NoContentAfterVerb(text)
  /\ RegexReturned
  /\ intent_result[1].intent = "session.end"

\* C8: when some pattern yields a result, detect_intent returns the first
\* such intent with confidence 0.95 and the classifier is not called; the
\* classifier is called only when no pattern yields a result.
C8_RegexPrecedence ==
  RegexDone =>
    LET yielding == {k \in 1..Len(patterns) : PatternYields(k, text)}
    IN  IF yielding # {}
          THEN /\ RegexReturned
               /\ intent_result # <<>>
               /\ intent_result[1].intent = patterns[MinOf(yielding)]
               /\ intent_result[1].confidence = 95
          ELSE pc = "classify" \/ ClassifierCalled

C8_Witness ==
  /\ pc = "done"
  /\ RegexReturned
  /\ intent_result[1].intent = "journal.start"
  /\ intent_result[1].confidence = 95

ToolIntents == IntentSet \ {"small_talk"}

\* The documented intent -> meta.kind table
DocumentedKind(intent) ==
  CASE intent = "journal.start" -> "journal"
    [] intent = "gratitude.add" -> "gratitude"
    [] intent \in {"todo.add", "todo.list", "todo.complete", "todo.delete"} -> "todo"
    [] intent = "quote.get" -> "quote"
    [] intent = "meditation.play" -> "meditation"
    [] intent = "session.end" -> "info"

\* C10: a stub card is an ok card whose body ends with the stub marker; for
\* the nine tool intents meta.kind follows the documented table, any other
\* intent string gets the generic "Action Completed" stub of kind info.
C10_StubCards ==
  (/\ pc = "done"
   /\ calls[Len(calls)] = "generate_stub_card"
   /\ Hashable(intent_result[1].intent))
    => LET intent == intent_result[1].intent
           c == card[1]
       IN  /\ c.status = "ok"
           /\ c.type = "card"
           /\ Len(c.body) > 0
           /\ c.body[Len(c.body)] = StubMarker
           /\ IF intent \in ToolIntents
                THEN c.meta.kind = DocumentedKind(intent)
                ELSE c.title = "Action Completed" /\ c.meta.kind = "info"

C10_Witness ==
  /\ pc = "done"
  /\ calls[Len(calls)] = "generate_stub_card"
  /\ intent_result[1].intent = "todo.delete"
  /\ card[1].meta.kind = "todo"
  /\ card[1].body[Len(card[1].body)] = StubMarker

\* C11: when the intent is small_talk and the completion call fails, with
\* whatever exception, the turn returns the error card LLM_COMPLETION_FAILED
\* whose title, body and meta are fixed: they are the same for every
\* provider error.
C11_CompletionFailureCard ==
  [][ \A reply \in CompletionReplies :
        (RouteSmallTalk(reply) /\ chat_completion(api_key, reply).raised)
          => /\ pc' = "done"
             /\ ~escaped'
             /\ card'[1].status = "error"
             /\ card'[1].error_code = "LLM_COMPLETION_FAILED"
             /\ card'[1].title = "Chat Error"
             /\ card'[1].body =
                  <<"I'm having trouble responding right now. Please try again.">>
             /\ card'[1].meta =
                  [EmptyMeta EXCEPT !.tool = "llm.chat_turn",
                                    !.error_code = "LLM_COMPLETION_FAILED"] ]_vars

C11_Witness ==
  /\ pc = "done"
  /\ api_key
  /\ calls[Len(calls)] = "chat_completion"
  /\ card[1].title = "Chat Error"
  /\ card[1].error_code = "LLM_COMPLETION_FAILED"

Parseable(message) ==
  /\ message.json
  /\ message.channel # <<>>
  /\ message.channel[1].alternatives # <<>>
  /\ message.channel[1].alternatives[1] # <<>>

\* An upstream message read while the client connection was open
ForwardedEntry(r) == r.open /\ Parseable(r.message)

TranscriptFrame(frame) == frame.type # "error"

\* C13: while the client connection is open, the client gets exactly one
\* frame per parseable upstream message, in the order the messages were read
\* from upstream, of type "final" for an is_final message and "partial"
\* otherwise.
C13_RelayOrdering ==
  LET forwarded == SelectSeq(received, ForwardedEntry)
      frames == SelectSeq(to_client, TranscriptFrame)
  IN  /\ Len(frames) = Len(forwarded)
      /\ \A i \in 1..Len(frames) :
           LET message == forwarded[i].message
               alternative == message.channel[1].alternatives[1][1]
           IN  /\ frames[i].type = IF message.is_final = <<TRUE>> THEN "final" ELSE "partial"
               /\ frames[i].text = IF alternative.transcript = <<>>
                                     THEN <<"">> ELSE alternative.transcript

C13_Witness ==
  /\ Len(to_client) = 3
  /\ to_client[1].type = "partial" /\ to_client[1].text = <<"">>
  /\ to_client[2].type = "partial" /\ to_client[2].text = <<"hello">>
  /\ to_client[3].type = "final"
  /\ client_open

\* The text frames the claim speaks of
StopMessages ==
  {msg \in ClientMessages :
     msg.text # <<>> /\ msg.text[1] \in {"stop", "STOP", "{\"type\": \"CloseStream\"}"}}

\* The client task is waiting for a frame, with both connections open
StopAwaited ==
  h_pc = "streaming" /\ c2d_pc = "receive" /\ client_open /\ dg_ws = "open"

StopHandled == c2d_exit = "stop" /\ c2d_pc = "done"

\* C14 (as stated): a "stop" text (any letter case) or the literal
\* close-stream payload makes the relay send CloseStream upstream, and once
\* the grace delay has elapsed the session is over: no frame goes to the
\* client any more.
C14_StopEndsSession ==
  [][ /\ \A msg \in StopMessages :
           (C2DReceive(msg) /\ dg_ws = "open")
             => (to_dg' = Append(to_dg, CloseStream) /\ c2d_pc' = "grace")
      /\ StopHandled => to_client' = to_client ]_vars

\* C14 (amended): such a text, received while upstream is open, makes the
\* relay send CloseStream upstream; nothing else is sent upstream after it
\* and the client task ends when the grace delay has elapsed.  The other
\* task keeps forwarding transcripts until upstream closes; once upstream
\* has closed the session terminates (both tasks done, upstream socket
\* released, handler returned), and no frame is sent after the return.
C14_StopThenUpstreamClose ==
  /\ [][ /\ \A msg \in StopMessages :
              (C2DReceive(msg) /\ dg_ws = "open")
                => (to_dg' = Append(to_dg, CloseStream) /\ c2d_pc' = "grace")
         /\ c2d_exit = "stop"
              => (to_dg' = to_dg /\ c2d_pc' \in {"grace", "done"})
         /\ h_pc = "returned" => to_client' = to_client
         /\ (c2d_exit = "stop" /\ h_pc' = "returned")
              => (/\ c2d_pc = "done" /\ d2c_pc = "done"
                  /\ dg_ws \in {"closed_ok", "closed_error"}
                  /\ dg_queue = <<>>) ]_vars
  /\ [](StopAwaited
          => \A msg \in StopMessages :
               ENABLED (C2DReceive(msg) /\ c2d_exit' = "stop" /\ c2d_pc' = "grace"))
  /\ (c2d_exit = "stop" /\ dg_ws \in {"closed_ok", "closed_error"})
       ~> (h_pc = "returned")

\* The session of a "stop" has terminated, after a transcript that came
\* when the client task had already ended
C14_Witness ==
  /\ h_pc = "returned"
  /\ c2d_exit = "stop"
  /\ to_dg = <<"audio", CloseStream>>
  /\ Len(to_client) = 1
  /\ to_client[1].type = "final"

\* C15: an exception raised inside a relay task is caught, and when the
\* client connection is still open as the session ends, the last frame the
\* client gets is {type: "error", error: <message>}.
C15_TaskErrorFrame ==
  [][ (/\ h_pc = "streaming"
       /\ h_pc' = "returned"
       /\ (c2d_exit = "error" \/ d2c_exit = "error")
       /\ client_open)
        => (/\ to_client' # <<>>
            /\ to_client'[Len(to_client')].type = "error"
            /\ to_client'[Len(to_client')].error # <<>>) ]_vars

RawExceptionStrings ==
  {str(outcome.exc) : outcome \in {o \in HandlerOutcomes : o.raised}}
    \cup {str(e) : e \in SetupFailures}
    \cup {reply.exc : reply \in {r \in CompletionReplies : r.kind = "raise"}}

\* C17: no output a user sees on a failure path (the body of a card of
\* chat_turn or of the middleware chain, a frame of the relay) contains the
\* raw exception string.
C17_NoRawExceptionText ==
  /\ card # <<>>
       => \A i \in 1..Len(card[1].body) : card[1].body[i] \notin RawExceptionStrings
  /\ \A i \in 1..Len(to_client) :
       to_client[i].error # <<>> => to_client[i].error[1] \notin RawExceptionStrings

\* C18: no log record of a chat turn contains the full raw user text: what
\* a record shows of the text is strictly shorter than the text.
C18_NoFullTextLogged ==
  len(text) > 0
    => \A i \in 1..Len(log) :
         log[i].masked_text.prefix + log[i].masked_text.suffix < len(text)

\* C19: a request with both required fields is answered 200 with a card,
\* also when the card is an error card; a request body without text or
\* without user_id is answered 422 and no stage of the pipeline runs for it.
C19_HttpStatus ==
  request # <<>>
    => IF RequiredFields \subseteq request[1]
         THEN /\ pc # "rejected"
              /\ http_status \in {0, 200}
              /\ pc = "done" => (http_status = 200 /\ card # <<>>)
         ELSE /\ pc = "rejected"
              /\ http_status = 422
              /\ calls = <<>>
              /\ card = <<>>

C19_Witness ==
  /\ pc = "done"
  /\ request = <<{"text", "user_id"}>>
  /\ http_status = 200
  /\ card[1].status = "error"
  /\ card[1].error_code = "TURN_PROCESSING_FAILED"

\* C20: a frame sent for a transcript has type "final" iff is_final is true,
\* carries the transcript text, has the key confidence iff the confidence is
\* not null and the key channel iff the channel index is not null; and a
\* message gives a frame iff it has a channel with a non-empty alternatives
\* list (as long as the client is connected).
C20_FrameShape ==
  LET frames == SelectSeq(to_client, TranscriptFrame)
      FrameIndex(k) == Cardinality({j \in 1..k : ForwardedEntry(received[j])})
  IN  /\ \A k \in 1..Len(received) :
           received[k].open
             => LET message == received[k].message
                IN  IF Parseable(message)
                      THEN LET frame == frames[FrameIndex(k)]
                               alternative == message.channel[1].alternatives[1][1]
                           IN  /\ (frame.type = "final") <=> (message.is_final = <<TRUE>>)
                               /\ frame.type \in {"final", "partial"}
                               /\ Len(frame.text) = 1
                               /\ (alternative.transcript # <<>>
                                     => frame.text = alternative.transcript)
                               /\ (frame.confidence # <<>>) <=> (alternative.confidence # <<>>)
                               /\ (frame.confidence # <<>>
                                     => frame.confidence = alternative.confidence)
                               /\ (frame.channel # <<>>) <=> (message.channel[1].index # <<>>)
                               /\ (frame.channel # <<>>
                                     => frame.channel = message.channel[1].index)
                               /\ frame.error = <<>>
                      ELSE FrameIndex(k) = FrameIndex(k - 1)
      /\ Len(frames) = FrameIndex(Len(received))

C20_Witness ==
  /\ Len(received) = 3
  /\ Len(to_client) = 2
  /\ ~received[2].message.json
  /\ to_client[1].confidence = <<>> /\ to_client[1].channel = <<>>
  /\ to_client[2].confidence = <<98>> /\ to_client[2].channel = <<0>>

\* C21: the chunks delivered in streaming mode, concatenated, are the text
\* that non-streaming mode returns for the same provider response, also when
\* the stream breaks part-way and the non-streaming fallback is used; a
\* streaming call fails only when the non-streaming call fails.
C21_SameContent ==
  /\ s_pc = "exhausted" => join(yielded) = message_content(s_resp)
  /\ (use_streaming /\ s_pc = "raised") => _non_streaming_completion(s_resp).raised

\* The documented priority order of the regex path
RegexOrder ==
  <<"journal.start", "todo.list", "todo.add", "quote.get",
    "meditation.play", "session.end">>

\* Positions in RegexOrder whose pattern matches the text and passes its guard
Winners(txt) ==
  {k \in 1..Len(RegexOrder) :
     /\ PatternSearch(RegexOrder[k], txt)
     /\ (RegexOrder[k] = "todo.add" => TodoAddGuard(txt))}

\* The regex path has just returned
RegexJustRan == calls = <<"_try_regex_patterns">>

\* C22: among the patterns that match and pass their guard the regex path
\* returns the first in the order journal.start, todo.list, todo.add,
\* quote.get, meditation.play, session.end (None when there is none); it
\* never returns gratitude.add, todo.complete, todo.delete or small_talk.
C22_RegexPriority ==
  RegexJustRan =>
    /\ IF Winners(text) = {}
         THEN intent_result = <<>>
         ELSE /\ intent_result # <<>>
              /\ \E k \in Winners(text) :
                   /\ intent_result[1].intent = RegexOrder[k]
                   /\ \A j \in Winners(text) : k <= j
    /\ intent_result # <<>> =>
         intent_result[1].intent \notin
           {"gratitude.add", "todo.complete", "todo.delete", "small_talk"}

\* A text on which two patterns yield and todo.add matches without content:
\* todo.list is returned
C22_Witness ==
  /\ RegexJustRan
  /\ Cardinality(Winners(text)) >= 2
  /\ PatternSearch("todo.add", text) /\ ~TodoAddGuard(text)
  /\ intent_result[1].intent = "todo.list"

\* The fields of a card that the routing claim compares
Projection(c) ==
  [status |-> c.status, type |-> c.type, title |-> c.title, body |-> c.body,
   meta |-> c.meta]

\* Argument mappings another intent result with the same label may carry
OtherArgs == {{}, {<<"content", <<"x">>>>}, {<<"topic", <<"bye">>>>}}

\* The card of the tool branch for an intent label and some arguments
ToolBranchCard(intent, args) ==
  LET r == generate_stub_card(intent, args)
  IN  IF r.raised THEN chat_turn_except(r.exc, 0).card[1] ELSE r.value[1]

\* C23: a turn whose intent is not small_talk ends in the tool branch
\* without a completion call, and its card has the status, type, title,
\* body and meta that the branch gives to every intent result with the same
\* label, whatever its confidence and arguments.
C23_RoutingByLabel ==
  (pc = "done" /\ intent_result # <<>> /\ intent_result[1].intent # "small_talk")
    => /\ calls[Len(calls)] = "generate_stub_card"
       /\ \A i \in 1..Len(calls) : calls[i] # "chat_completion"
       /\ \A args \in OtherArgs :
            Projection(card[1]) = Projection(ToolBranchCard(intent_result[1].intent, args))

\* todo.add from the classifier at confidence 0.40 is answered with the same
\* stub as todo.add from the regex path at 0.95
C23_Witness ==
  /\ pc = "done"
  /\ intent_result # <<>>
  /\ intent_result[1].intent = "todo.add"
  /\ intent_result[1].confidence = 40
  /\ intent_result[1].args # {}
  /\ card[1].title = "To-Do Added"

\* The client has gone while the client task waits for a frame in STREAMING
DisconnectAwaited ==
  h_pc = "streaming" /\ c2d_pc = "receive" /\ ~client_open /\ dg_ws = "open"

\* C24: when the client disconnects during STREAMING (both connections
\* open), the client task reads the disconnect, sends CloseStream upstream
\* as it does for a stop, sends nothing upstream after it and ends when the
\* grace delay has elapsed; the task ends as a disconnect, not as an error,
\* and no frame (so no error frame) goes to the client.
C24_DisconnectLikeStop ==
  /\ [][ /\ (C2DReceive(DisconnectMessage) /\ dg_ws = "open")
              => /\ to_dg' = Append(to_dg, CloseStream)
                 /\ c2d_pc' = "grace"
                 /\ c2d_exit' = "disconnect"
         /\ c2d_exit = "disconnect"
              => /\ to_dg' = to_dg
                 /\ to_client' = to_client
                 /\ c2d_exit' = "disconnect"
                 /\ c2d_pc' \in {"grace", "done"} ]_vars
  /\ [](DisconnectAwaited
          => ENABLED (C2DReceive(DisconnectMessage) /\ c2d_exit' = "disconnect"
                                                   /\ c2d_pc' = "grace"))
  /\ (c2d_exit = "disconnect") ~> (c2d_pc = "done")

\* The client left after an audio chunk: CloseStream followed it upstream
\* and the client task has ended
C24_Witness ==
  /\ c2d_exit = "disconnect"
  /\ c2d_pc = "done"
  /\ ~client_open
  /\ to_dg = <<"audio", CloseStream>>

\* A final transcript has been sent to the client
FinalForwarded == \E i \in 1..Len(to_client) : to_client[i].type = "final"

\* C25: reading and forwarding a final transcript leaves the upstream task
\* in its loop and the session in STREAMING; after a final has been
\* forwarded the task still reads every message upstream delivers, whatever
\* the client task is doing, and sends the frame of each parseable one to
\* the connected client.
C25_FinalDoesNotEnd ==
  /\ [][ /\ (/\ D2CMessage
             /\ Parseable(Head(dg_queue))
             /\ Head(dg_queue).is_final = <<TRUE>>)
              => (d2c_pc' = "recv" /\ h_pc' = "streaming")
         /\ (/\ D2CMessage
             /\ FinalForwarded
             /\ client_open
             /\ Parseable(Head(dg_queue)))
              => to_client' =
                   Append(to_client,
                          response(_parse_transcript_message(Head(dg_queue))[1])) ]_vars
  /\ []((FinalForwarded /\ h_pc = "streaming" /\ dg_queue # <<>>) => ENABLED D2CMessage)

\* A partial result was forwarded after a final one; the client has sent
\* stop and its task is in the grace delay
C25_Witness ==
  /\ Len(to_client) = 2
  /\ to_client[1].type = "final"
  /\ to_client[2].type = "partial"
  /\ c2d_exit = "stop"
  /\ c2d_pc = "grace"
  /\ \E k \in 1..Len(to_dg) : to_dg[k] = CloseStream

\* Position of the frame of received[k] among the frames sent to the client
FramePosition(k) == Cardinality({j \in 1..k : ForwardedEntry(received[j])})

\* C26: an upstream message that is not JSON, or from which no transcript
\* event can be read, gets no frame and leaves the upstream task in its
\* loop; every parseable message read after it while the client is connected
\* has its frame sent, and the task stays ready to read what upstream has
\* delivered.
C26_MalformedSkipped ==
  /\ [][ (D2CMessage /\ ~Parseable(Head(dg_queue)))
           => (to_client' = to_client /\ d2c_pc' = "recv" /\ d2c_exit' = d2c_exit
               /\ h_pc' = "streaming") ]_vars
  /\ [](\A k \in 1..Len(received) : \A j \in (k+1)..Len(received) :
          (~Parseable(received[k].message) /\ ForwardedEntry(received[j]))
            => LET frames == SelectSeq(to_client, TranscriptFrame)
               IN  /\ FramePosition(j) <= Len(frames)
                   /\ frames[FramePosition(j)] =
                        response(_parse_transcript_message(received[j].message)[1]))
  /\ []((/\ \E k \in 1..Len(received) : ~Parseable(received[k].message)
         /\ h_pc = "streaming"
         /\ dg_queue # <<>>) => ENABLED D2CMessage)

\* Text that is not JSON, then JSON without a transcript, then a final
\* result: the client got the one frame
C26_Witness ==
  /\ Len(received) = 3
  /\ ~received[1].message.json
  /\ received[2].message.json /\ ~Parseable(received[2].message)
  /\ Parseable(received[3].message)
  /\ Len(to_client) = 1
  /\ to_client[1].type = "final"

\* The upstream connection has closed
UpstreamClosed == dg_ws \in {"closed_ok", "closed_error"}

\* C27: once upstream has closed while the client is connected, or once the
\* client has disconnected, both relay tasks finish and the handler
\* returns; a session that reached STREAMING never sends an error frame.
C27_DisconnectTerminates ==
  /\ (h_pc = "streaming" /\ UpstreamClosed /\ client_open)
       ~> (c2d_pc = "done" /\ d2c_pc = "done" /\ h_pc = "returned")
  /\ (h_pc = "streaming" /\ ~client_open)
       ~> (c2d_pc = "done" /\ d2c_pc = "done" /\ h_pc = "returned")
  /\ [](dg_ws # "none" => \A i \in 1..Len(to_client) : to_client[i].type # "error")

\* The fixed phrase list as documented, in list order
DocumentedPhrases ==
  <<"hurt myself", "kill myself", "end it all", "not worth living",
    "suicide", "self harm", "cut myself", "overdose">>

\* Positions of the documented phrases that occur in the lower-cased text
MatchingPhrases(txt) ==
  {k \in 1..Len(DocumentedPhrases) :
     \E i \in 1..Len(txt) : Lower(txt[i]) = DocumentedPhrases[k]}

\* The tool has just been called on the text of the state
GateChecked == pc = "after_safety" /\ calls = <<"safety_check">>

\* C28: called with the context of the tool server, check returns an ok card
\* whose meta.action is show_support_card exactly when a phrase of the list
\* occurs in the lower-cased text; concerns_found then lists the occurring
\* phrases, each once, in list order; otherwise meta.action is none.
C28_SafetyCheckResult ==
  GateChecked =>
    LET r == check(TimingCtx(now - start_time), text)
        c == r.value[1]
        found == c.meta.concerns_found
    IN  /\ ~r.raised
        /\ c.status = "ok"
        /\ c.meta.action = IF MatchingPhrases(text) # {} THEN "show_support_card" ELSE "none"
        /\ MatchingPhrases(text) # {} =>
             /\ Len(found) = Cardinality(MatchingPhrases(text))
             /\ \A k \in MatchingPhrases(text) :
                  \E i \in 1..Len(found) : found[i] = DocumentedPhrases[k]
             /\ \A i, j \in 1..Len(found) :
                  i < j => \E a, b \in MatchingPhrases(text) :
                             /\ a < b
                             /\ found[i] = DocumentedPhrases[a]
                             /\ found[j] = DocumentedPhrases[b]
        /\ safety_card = IF MatchingPhrases(text) # {} THEN <<c>> ELSE <<>>

\* "suicide" comes before "Hurt Myself" in the text, after it in the list
C28_Witness ==
  /\ GateChecked
  /\ Len(text) = 3
  /\ text[1] = "suicide" /\ text[3] = "Hurt Myself"
  /\ safety_card # <<>>
  /\ safety_card[1].meta.concerns_found = <<"hurt myself", "suicide">>

\* Positions of the CloseStream signals among what was sent upstream
CloseStreamsSent == {i \in 1..Len(to_dg) : to_dg[i] = CloseStream}

\* C29: at most one CloseStream is sent upstream in a session, and it is the
\* last thing sent upstream: no audio chunk follows it.
C29_OneCloseStream ==
  /\ Cardinality(CloseStreamsSent) <= 1
  /\ \A i \in CloseStreamsSent : i = Len(to_dg)

\* CloseStream went out after an audio chunk and the client task has ended,
\* while the client is still connected and the session still streaming
C29_Witness ==
  /\ CloseStreamsSent = {2}
  /\ to_dg[1] = "audio"
  /\ c2d_pc = "done"
  /\ client_open
  /\ h_pc = "streaming"

\* C30: no frame is handed to the client connection for sending once the
\* client has disconnected: every message from which the upstream task
\* built a frame and called send_text (every parseable one) was read while
\* the client connection was open (received[k].open is the state of the
\* connection at that call).
C30_NoSendAfterDisconnect ==
  \A k \in 1..Len(received) :
     Parseable(received[k].message) => received[k].open

====
